---- MODULE Spec2Model ----
(***************************************************************************)
(* Masked-reconstruction training script (scripts/train.py).               *)
(*                                                                         *)
(* Tensors are records [dtype, data]; data is a sequence of rows (the      *)
(* batch dimension), each row a sequence of Cols integers.  A loss is the  *)
(* record [sumsq, n, resid]: the mean-squared error sumsq / n (NaN when    *)
(* n = 0) and the sum of the differences, which its gradient follows.      *)
(***************************************************************************)
EXTENDS Integers, Sequences, FiniteSets, TLC

\* Width of one sample (second tensor dimension).
Cols == 4
\* Largest spike count in the data.
MaxVal == 1
\* Number of epochs of the run (the script runs 100).
num_epochs == 2
\* Largest number of batches a loader yields.
MaxBatches == 2
\* Samples in a batch (the script asks for 64; a last, partial batch holds fewer).
batch_size == 1

VARIABLES
    call,        \* model_step under test: its arguments
    ret,         \* model_step under test: its result
    pc,          \* position of the script
    net,         \* the network: [kind, w]
    grad,        \* gradient held by the optimizer's parameter
    epoch, batch_num, total_epoch,
    loss, preds, targets, the_mask, rate,   \* module-level names of the script
    loaders,     \* [train, val]: number of batches of each loader
    it,          \* position of the running enumerate(...)
    batch,       \* the batch being processed
    dtype,       \* element type of the dataset's X
    logger,      \* what the SummaryWriter has received
    checkpoint,  \* contents of model.pt
    trace,       \* calls made for the current batch
    hist         \* bookkeeping about the run, read only by the properties

vars == <<call, ret, pc, net, grad, epoch, batch_num, total_epoch, loss, preds,
          targets, the_mask, rate, loaders, it, batch, dtype, logger, checkpoint, trace, hist>>

----------------------------------------------------------------------------
\* Tensors

Rows == batch_size

NoneT == [dtype |-> "None", data |-> <<>>]
NoLoss == [sumsq |-> -1, n |-> -1, resid |-> 0]

TensorData(V) == [1..Rows -> [1..Cols -> V]]

ValuesOf(dt) == IF dt = "uint8" THEN 0..MaxVal ELSE (-1)..MaxVal

RECURSIVE SumSeq(_)
SumSeq(s) == IF s = <<>> THEN 0 ELSE Head(s) + SumSeq(Tail(s))

RECURSIVE Flatten(_)
Flatten(d) == IF d = <<>> THEN <<>> ELSE Head(d) \o Flatten(Tail(d))

Sum(d) == SumSeq(Flatten(d))
numel(d) == Len(Flatten(d))
Shape(d) == IF d = <<>> THEN <<0, 0>> ELSE <<Len(d), Len(d[1])>>
LastRow(t) == t.data[Len(t.data)]

----------------------------------------------------------------------------
\* model_step, line by line

\* rate.to(device): fails on a rate that is None
RateToDevice(r) ==
    IF r = NoneT THEN [outcome |-> "AttributeError", rate |-> NoneT]
                 ELSE [outcome |-> "ok", rate |-> r]

\* torch.zeros_like(X): zeros of X's shape and of X's element type
zeros_like(X) ==
    [dtype |-> X.dtype, data |-> [i \in 1..Len(X.data) |-> [j \in 1..Len(X.data[i]) |-> 0]]]

\* the mask: the masker's for masking, zeros_like(X) otherwise
BuildMask(X, masking, masker_out) == IF masking THEN masker_out ELSE zeros_like(X)

ShapeAssert(X, m) == Shape(X.data) = Shape(m.data)

\* the strict comparison, written without the fraction
MaskFractionAssert_nonstrict(m) == 2 * Sum(m.data) <= numel(m.data)
MaskFractionAssert(m) == 2 * Sum(m.data) < numel(m.data)

\* X * (1 - the_mask.to(float32))
MaskInput_added(X, m) ==
    [dtype |-> "float32",
     data |-> [i \in 1..Len(X.data) |->
                 [j \in 1..Len(X.data[i]) |-> X.data[i][j] * (1 + m.data[i][j])]]]
MaskInput(X, m) ==
    [dtype |-> "float32",
     data |-> [i \in 1..Len(X.data) |->
                 [j \in 1..Len(X.data[i]) |-> X.data[i][j] * (1 - m.data[i][j])]]]

MaskedSumAssert(X_masked, X) == Sum(X_masked.data) <= Sum(X.data)

\* what the network is given
NetInput_unmasked(X, X_masked) == [dtype |-> "float32", data |-> X.data]
NetInput(X, X_masked) == [dtype |-> "float32", data |-> X_masked.data]

\* the network: the identity, a constant w, or its input shifted by w
NetApply(n, t) ==
    [dtype |-> "float32",
     data |-> [i \in 1..Len(t.data) |->
                 [j \in 1..Len(t.data[i]) |->
                    CASE n.kind = "identity" -> t.data[i][j]
                      [] n.kind = "const"    -> n.w
                      [] OTHER               -> t.data[i][j] + n.w]]]

\* t[m] with a boolean (or byte) mask: the elements where m is set, row-major
RECURSIVE SelectSeq2(_, _)
SelectSeq2(ft, fm) ==
    IF ft = <<>> THEN <<>>
    ELSE (IF Head(fm) = 1 THEN <<Head(ft)>> ELSE <<>>) \o SelectSeq2(Tail(ft), Tail(fm))

\* t[m] with an integer tensor: row m[i][j] of t for every element of m
RECURSIVE GatherRows(_, _)
GatherRows(d, fm) ==
    IF fm = <<>> THEN <<>> ELSE d[Head(fm) + 1] \o GatherRows(d, Tail(fm))

\* t[m]: indexing a tensor by a tensor, by the index's element type
Index(t, m) ==
    CASE m.dtype \in {"bool", "uint8"} ->
            [ok |-> TRUE, vals |-> SelectSeq2(Flatten(t.data), Flatten(m.data))]
      [] m.dtype = "int64" ->
            [ok |-> TRUE, vals |-> GatherRows(t.data, Flatten(m.data))]
      [] OTHER -> [ok |-> FALSE, vals |-> <<>>]

\* the target handed to the criterion
LossTarget(X, X_masked, m) == Index(X, m)

\* nn.MSELoss: the mean of the squared differences
RECURSIVE SumSq(_, _)
SumSq(p, t) ==
    IF p = <<>> THEN 0
    ELSE (Head(p) - Head(t)) * (Head(p) - Head(t)) + SumSq(Tail(p), Tail(t))

\* the sum of the differences, which the gradient of the mean follows
RECURSIVE SumDiff(_, _)
SumDiff(p, t) ==
    IF p = <<>> THEN 0 ELSE (Head(p) - Head(t)) + SumDiff(Tail(p), Tail(t))

criterion(p, t) == [sumsq |-> SumSq(p, t), n |-> Len(p), resid |-> SumDiff(p, t)]

Failed(kind, line, X, m, r, xm) ==
    [outcome |-> kind, line |-> line, net_called |-> FALSE, loss |-> NoLoss,
     X_smoothed |-> NoneT, X |-> X, the_mask |-> m, rate |-> r, X_masked |-> xm,
     sel_pred |-> <<>>, sel_tgt |-> <<>>]

model_step(n, b, masking, masker_out) ==
    LET X == b.X
        r == RateToDevice(b.rate)
    IN  IF r.outcome # "ok" THEN Failed(r.outcome, 17, X, NoneT, NoneT, NoneT)
        ELSE
        LET m == BuildMask(X, masking, masker_out)
        IN  IF ~ShapeAssert(X, m) THEN Failed("AssertionError", 23, X, m, r.rate, NoneT)
            ELSE IF ~MaskFractionAssert(m) THEN Failed("AssertionError", 24, X, m, r.rate, NoneT)
            ELSE
            LET X_masked == MaskInput(X, m)
            IN  IF ~MaskedSumAssert(X_masked, X)
                THEN Failed("AssertionError", 28, X, m, r.rate, X_masked)
                ELSE
                LET X_smoothed == NetApply(n, NetInput(X, X_masked))
                    sp == Index(X_smoothed, m)
                    st == LossTarget(X, X_masked, m)
                IN  IF ~sp.ok \/ ~st.ok
                    THEN [Failed("IndexError", 32, X, m, r.rate, X_masked)
                            EXCEPT !.net_called = TRUE, !.X_smoothed = X_smoothed]
                    ELSE [outcome |-> "ok", line |-> 34, net_called |-> TRUE,
                          loss |-> criterion(sp.vals, st.vals),
                          X_smoothed |-> X_smoothed, X |-> X, the_mask |-> m,
                          rate |-> r.rate, X_masked |-> X_masked,
                          sel_pred |-> sp.vals, sel_tgt |-> st.vals]

----------------------------------------------------------------------------
\* Inputs

DTypes == {"uint8", "int64", "float32"}

XTensors(dt) == {[dtype |-> dt, data |-> d] : d \in TensorData(ValuesOf(dt))}

\* the masker: some boolean tensor of X's shape
MaskerOutputs(X) == {[dtype |-> "bool", data |-> d] : d \in TensorData({0, 1})}

ConstRate(v) == [dtype |-> "float32", data |-> [i \in 1..Rows |-> [j \in 1..Cols |-> v]]]

Nets == {[kind |-> "identity", w |-> 0], [kind |-> "const", w |-> MaxVal],
         [kind |-> "shift", w |-> MaxVal]}

----------------------------------------------------------------------------
\* model_step on its own: the arguments are drawn, then the call is made

Rates == {NoneT, ConstRate(1)}

\* with masking the masker is asked for a mask; without, it is not called
MaskerCalls(X, masking) == IF masking THEN MaskerOutputs(X) ELSE {NoneT}

NoCall == [net |-> [kind |-> "identity", w |-> 0], batch |-> [X |-> NoneT, rate |-> NoneT],
           masking |-> FALSE, masker_out |-> NoneT]
NoRet == Failed("pending", 0, NoneT, NoneT, NoneT, NoneT)

LoopIdle ==
    /\ pc = "idle"
    /\ net = [kind |-> "identity", w |-> 0, mode |-> "train"]
    /\ grad = 0 /\ epoch = -1 /\ batch_num = -1 /\ total_epoch = -1 /\ it = 0
    /\ loss = NoLoss /\ preds = NoneT /\ targets = NoneT /\ the_mask = NoneT /\ rate = NoneT
    /\ loaders = [train |-> 0, val |-> 0]
    /\ batch = [X |-> NoneT, rate |-> NoneT]
    /\ dtype = "None"
    /\ logger = <<>> /\ checkpoint = <<>> /\ trace = <<>> /\ hist = <<>>

InitStep ==
    /\ \E n \in Nets, dt \in DTypes, r \in Rates, mk \in BOOLEAN :
         \E x \in XTensors(dt) :
           \E m \in MaskerCalls(x, mk) :
             call = [net |-> n, batch |-> [X |-> x, rate |-> r], masking |-> mk,
                     masker_out |-> m]
    /\ ret = NoRet
    /\ LoopIdle

CallModelStep ==
    /\ ret = NoRet
    /\ ret' = model_step(call.net, call.batch, call.masking, call.masker_out)
    /\ UNCHANGED <<call, pc, net, grad, epoch, batch_num, total_epoch, loss, preds,
                   targets, the_mask, rate, loaders, it, batch, dtype, logger,
                   checkpoint, trace, hist>>

NextStep == CallModelStep

SpecStep == InitStep /\ [][NextStep]_vars

----------------------------------------------------------------------------
\* The script: epochs of a train loop and a validation loop

Phases == {"train", "val"}

\* the samples of the dataset: spike counts, and one sample with a negative entry
SampleData(dt) ==
    {[i \in 1..Rows |-> [j \in 1..Cols |-> (i + j + k) % (MaxVal + 1)]] : k \in {0, 1}}
    \cup (IF dt = "uint8" THEN {}
          ELSE {[i \in 1..Rows |-> [j \in 1..Cols |-> IF j = 1 THEN -1 ELSE 1]]})

Dataset(dt) ==
    {[X |-> [dtype |-> dt, data |-> d], rate |-> ConstRate(1 + Sum(d))] : d \in SampleData(dt)}

\* the masks the masker hands out during the run: the leading k positions of each row
RunMasks(X) ==
    {m \in MaskerOutputs(X) :
        \E k \in 0..Cols : \A i \in 1..Rows : \A j \in 1..Cols : m.data[i][j] = 1 <=> j <= k}

NoEntry == [step |-> -1]

NewLogger ==
    [loss    |-> [p \in Phases |-> NoEntry],   \* the last '<prefix>/loss' scalar
     n_loss  |-> [p \in Phases |-> 0],         \* how many of them
     n_scalar |-> 0,                           \* add_scalar calls
     r2      |-> NoEntry,                      \* the last 'val/r2' scalar
     image   |-> [p \in Phases |-> NoEntry],   \* the last group of '<prefix>/...' images
     n_image |-> [p \in Phases |-> 0]]         \* how many groups

NewHist ==
    [error |-> "none", line |-> 0,
     step_ret |-> NoEntry,                      \* the first model_step return of the batch
     last_ret |-> [p \in Phases |-> NoEntry],   \* the last model_step return of each phase
     done |-> [p \in Phases |-> 0],             \* batches of the epoch gone through each loop
     batch_start_w |-> 0,                       \* w when the batch was fetched
     val_start_w |-> 0,                         \* w when the validation loop was entered
     epoch_start_w |-> 0,                       \* w when the epoch began
     saves |-> 0]                               \* torch.save calls

NoFile == [exists |-> FALSE, w |-> 0]

Init ==
    /\ call = NoCall /\ ret = NoRet
    /\ pc = "epoch_head"
    /\ net = [kind |-> "shift", w |-> 0, mode |-> "train"]
    /\ grad = 0
    /\ epoch = -1 /\ batch_num = -1 /\ total_epoch = -1 /\ it = 0
    /\ loss = NoLoss /\ preds = NoneT /\ targets = NoneT /\ the_mask = NoneT /\ rate = NoneT
    /\ loaders \in [Phases -> 0..MaxBatches]
    /\ batch = [X |-> NoneT, rate |-> NoneT]
    /\ dtype \in DTypes
    /\ logger = NewLogger
    /\ checkpoint = NoFile
    /\ trace = <<>>
    /\ hist = NewHist

Sign(x) == IF x > 0 THEN 1 ELSE IF x < 0 THEN -1 ELSE 0

\* epoch * len(loader) + batch_num
TotalEpoch(e, n, b) == e * n + b

Crash(kind, line) ==
    /\ pc' = "crashed"
    /\ hist' = [hist EXCEPT !.error = kind, !.line = line]

\* where the script goes next
AfterBackward_skip == "train_log"
AfterBackward == "opt_step"
AfterValImages_skip == "epoch_head"
AfterValImages == "save"
AfterValLog == "val_r2"

\* log_metrics: the assertion, then the scalars; `loss_global` is the module's `loss`
LogMetricsOk(tg) == \A i \in 1..Len(tg.data) : \A j \in 1..Len(tg.data[i]) : tg.data[i][j] >= 0

LossLogged_first(lg, prefix, loss_global) ==
    IF lg.loss[prefix] = NoEntry THEN loss_global ELSE lg.loss[prefix].value
LossLogged(lg, prefix, loss_global) == loss_global

log_metrics(lg, p, tg, m, prefix, step, loss_global) ==
    [lg EXCEPT !.loss[prefix] = [step |-> step, value |-> LossLogged(lg, prefix, loss_global),
                                 mean_preds |-> <<Sum(p.data), numel(p.data)>>,
                                 mean_targets |-> <<Sum(tg.data), numel(tg.data)>>,
                                 mean_mask |-> <<Sum(m.data), numel(m.data)>>],
               !.n_loss[prefix] = @ + 1,
               !.n_scalar = @ + 6]

\* the four add_image calls that follow a loop
add_images_targets(lg, prefix, e, p, tg, m, r) ==
    [lg EXCEPT !.image[prefix] = [step |-> e, preds |-> LastRow(tg), targets |-> LastRow(tg),
                                  the_mask |-> LastRow(m), rate |-> LastRow(r)],
               !.n_image[prefix] = @ + 1]
add_images(lg, prefix, e, p, tg, m, r) ==
    [lg EXCEPT !.image[prefix] = [step |-> e, preds |-> LastRow(p), targets |-> LastRow(tg),
                                  the_mask |-> LastRow(m), rate |-> LastRow(r)],
               !.n_image[prefix] = @ + 1]

Returned(phase, r) ==
    [step |-> epoch, phase |-> phase, batch_num |-> batch_num, loss |-> r.loss,
     preds |-> r.X_smoothed, targets |-> r.X, the_mask |-> r.the_mask, rate |-> r.rate]

\* loss.backward(): the gradient of the mean-squared error in w (its sign)
LossGrad(n, l) == IF n.kind = "identity" \/ l.n = 0 THEN 0 ELSE Sign(l.resid)

\* optimizer.step(): one step against the gradient
OptimizerStep(w, g) == w - Sign(g)

\* net.state_dict() as torch.save writes it
state_dict(n) == [exists |-> TRUE, w |-> n.w]

\* for epoch in range(num_epochs): net.train()
EpochHead ==
    /\ pc = "epoch_head"
    /\ IF epoch + 1 < num_epochs
       THEN /\ epoch' = epoch + 1
            /\ net' = [net EXCEPT !.mode = "train"]
            /\ it' = 0
            /\ pc' = "train_head"
            /\ hist' = [hist EXCEPT !.done = [p \in Phases |-> 0], !.epoch_start_w = net.w]
       ELSE /\ pc' = "done"
            /\ UNCHANGED <<epoch, net, it, hist>>
    /\ UNCHANGED <<call, ret, grad, batch_num, total_epoch, loss, preds, targets, the_mask,
                   rate, loaders, batch, dtype, logger, checkpoint, trace>>

\* for batch_num, batch in enumerate(train_loader)
TrainFetch ==
    /\ pc = "train_head"
    /\ IF it < loaders["train"]
       THEN /\ batch' \in Dataset(dtype)
            /\ batch_num' = it
            /\ it' = it + 1
            /\ trace' = <<>>
            /\ hist' = [hist EXCEPT !.batch_start_w = net.w]
            /\ pc' = "zero_grad"
       ELSE /\ pc' = "train_images"
            /\ UNCHANGED <<batch, batch_num, it, trace, hist>>
    /\ UNCHANGED <<call, ret, net, grad, epoch, total_epoch, loss, preds, targets, the_mask,
                   rate, loaders, dtype, logger, checkpoint>>

\* optimizer.zero_grad()
ZeroGrad ==
    /\ pc = "zero_grad"
    /\ grad' = 0
    /\ trace' = Append(trace, "zero_grad")
    /\ pc' = "model_step"
    /\ UNCHANGED <<call, ret, net, epoch, batch_num, total_epoch, loss, preds, targets,
                   the_mask, rate, loaders, it, batch, dtype, logger, checkpoint, hist>>

\* loss, preds, targets, the_mask, rate = model_step(net, criterion, masker, batch, device)
TrainModelStep ==
    /\ pc = "model_step"
    /\ \E m \in RunMasks(batch.X) :
         LET r == model_step(net, batch, TRUE, m)
         IN  IF r.outcome = "ok"
             THEN /\ loss' = r.loss /\ preds' = r.X_smoothed /\ targets' = r.X
                  /\ the_mask' = r.the_mask /\ rate' = r.rate
                  /\ trace' = Append(trace, "model_step")
                  /\ hist' = [hist EXCEPT !.step_ret = Returned("train", r),
                                          !.last_ret["train"] = Returned("train", r)]
                  /\ pc' = "backward"
             ELSE /\ Crash(r.outcome, r.line)
                  /\ UNCHANGED <<loss, preds, targets, the_mask, rate, trace>>
    /\ UNCHANGED <<call, ret, net, grad, epoch, batch_num, total_epoch, loaders, it, batch,
                   dtype, logger, checkpoint>>

\* loss.backward()
Backward ==
    /\ pc = "backward"
    /\ grad' = grad + LossGrad(net, loss)
    /\ trace' = Append(trace, "backward")
    /\ pc' = AfterBackward
    /\ UNCHANGED <<call, ret, net, epoch, batch_num, total_epoch, loss, preds, targets,
                   the_mask, rate, loaders, it, batch, dtype, logger, checkpoint, hist>>

\* optimizer.step()
OptStep ==
    /\ pc = "opt_step"
    /\ net' = [net EXCEPT !.w = OptimizerStep(net.w, grad)]
    /\ trace' = Append(trace, "step")
    /\ pc' = "train_log"
    /\ UNCHANGED <<call, ret, grad, epoch, batch_num, total_epoch, loss, preds, targets,
                   the_mask, rate, loaders, it, batch, dtype, logger, checkpoint, hist>>

\* total_epoch = ...; log_metrics(preds, targets, the_mask, logger, "train", total_epoch)
TrainLog ==
    /\ pc = "train_log"
    /\ total_epoch' = TotalEpoch(epoch, loaders["train"], batch_num)
    /\ IF LogMetricsOk(targets)
       THEN /\ logger' = log_metrics(logger, preds, targets, the_mask, "train",
                                     total_epoch', loss)
            /\ trace' = Append(trace, "log_metrics")
            /\ hist' = [hist EXCEPT !.done["train"] = @ + 1]
            /\ pc' = "train_head"
       ELSE /\ Crash("AssertionError", 38)
            /\ UNCHANGED <<logger, trace>>
    /\ UNCHANGED <<call, ret, net, grad, epoch, batch_num, loss, preds, targets, the_mask,
                   rate, loaders, it, batch, dtype, checkpoint>>

\* the train images, then net.eval()
TrainImages ==
    /\ pc = "train_images"
    /\ IF preds = NoneT
       THEN /\ Crash("NameError", 92)
            /\ UNCHANGED <<logger, net, it>>
       ELSE /\ logger' = add_images(logger, "train", epoch, preds, targets, the_mask, rate)
            /\ net' = [net EXCEPT !.mode = "eval"]
            /\ it' = 0
            /\ hist' = [hist EXCEPT !.val_start_w = net.w]
            /\ pc' = "val_head"
    /\ UNCHANGED <<call, ret, grad, epoch, batch_num, total_epoch, loss, preds, targets,
                   the_mask, rate, loaders, batch, dtype, checkpoint, trace>>

\* for batch_num, batch in enumerate(val_loader)
ValFetch ==
    /\ pc = "val_head"
    /\ IF it < loaders["val"]
       THEN /\ batch' \in Dataset(dtype)
            /\ batch_num' = it
            /\ it' = it + 1
            /\ trace' = <<>>
            /\ hist' = [hist EXCEPT !.batch_start_w = net.w]
            /\ pc' = "val_step"
       ELSE /\ pc' = "val_images"
            /\ UNCHANGED <<batch, batch_num, it, trace, hist>>
    /\ UNCHANGED <<call, ret, net, grad, epoch, total_epoch, loss, preds, targets, the_mask,
                   rate, loaders, dtype, logger, checkpoint>>

\* total_epoch = ...; loss, preds, targets, the_mask, rate = model_step(..., False)
ValModelStep ==
    /\ pc = "val_step"
    /\ total_epoch' = TotalEpoch(epoch, loaders["val"], batch_num)
    /\ LET r == model_step(net, batch, FALSE, NoneT)
       IN  IF r.outcome = "ok"
           THEN /\ loss' = r.loss /\ preds' = r.X_smoothed /\ targets' = r.X
                /\ the_mask' = r.the_mask /\ rate' = r.rate
                /\ trace' = Append(trace, "model_step")
                /\ hist' = [hist EXCEPT !.step_ret = Returned("val", r),
                                        !.last_ret["val"] = Returned("val", r)]
                /\ pc' = "val_log"
           ELSE /\ Crash(r.outcome, r.line)
                /\ UNCHANGED <<loss, preds, targets, the_mask, rate, trace>>
    /\ UNCHANGED <<call, ret, net, grad, epoch, batch_num, loaders, it, batch, dtype,
                   logger, checkpoint>>

\* log_metrics(preds, targets, the_mask, logger, "val", total_epoch)
ValLog ==
    /\ pc = "val_log"
    /\ IF LogMetricsOk(targets)
       THEN /\ logger' = log_metrics(logger, preds, targets, the_mask, "val",
                                     total_epoch, loss)
            /\ trace' = Append(trace, "log_metrics")
            /\ pc' = AfterValLog
            /\ UNCHANGED hist
       ELSE /\ Crash("AssertionError", 38)
            /\ UNCHANGED <<logger, trace>>
    /\ UNCHANGED <<call, ret, net, grad, epoch, batch_num, total_epoch, loss, preds, targets,
                   the_mask, rate, loaders, it, batch, dtype, checkpoint>>

\* if rate is not None: the second model_step and the 'val/r2' scalar
ValR2 ==
    /\ pc = "val_r2"
    /\ IF rate # NoneT
       THEN LET r == model_step(net, batch, FALSE, NoneT)
            IN  IF r.outcome = "ok"
                THEN /\ preds' = r.X_smoothed /\ targets' = r.X
                     /\ the_mask' = r.the_mask /\ rate' = r.rate
                     /\ logger' = [logger EXCEPT !.r2 = [step |-> total_epoch],
                                                 !.n_scalar = @ + 1]
                     /\ trace' = trace \o <<"model_step", "add_scalar">>
                     /\ hist' = [hist EXCEPT !.last_ret["val"] = Returned("val", r),
                                             !.done["val"] = @ + 1]
                     /\ pc' = "val_head"
                ELSE /\ Crash(r.outcome, r.line)
                     /\ UNCHANGED <<preds, targets, the_mask, rate, logger, trace>>
       ELSE /\ pc' = "val_head"
            /\ hist' = [hist EXCEPT !.done["val"] = @ + 1]
            /\ UNCHANGED <<preds, targets, the_mask, rate, logger, trace>>
    /\ UNCHANGED <<call, ret, net, grad, epoch, batch_num, total_epoch, loss, loaders, it,
                   batch, dtype, checkpoint>>

\* the val images
ValImages ==
    /\ pc = "val_images"
    /\ IF preds = NoneT
       THEN /\ Crash("NameError", 118)
            /\ UNCHANGED logger
       ELSE /\ logger' = add_images(logger, "val", epoch, preds, targets, the_mask, rate)
            /\ pc' = AfterValImages
            /\ UNCHANGED hist
    /\ UNCHANGED <<call, ret, net, grad, epoch, batch_num, total_epoch, loss, preds, targets,
                   the_mask, rate, loaders, it, batch, dtype, checkpoint, trace>>

\* torch.save(net.state_dict(), .../model.pt)
Save ==
    /\ pc = "save"
    /\ checkpoint' = state_dict(net)
    /\ hist' = [hist EXCEPT !.saves = @ + 1]
    /\ pc' = "epoch_head"
    /\ UNCHANGED <<call, ret, net, grad, epoch, batch_num, total_epoch, loss, preds, targets,
                   the_mask, rate, loaders, it, batch, dtype, logger, trace>>

Next ==
    \/ EpochHead \/ TrainFetch \/ ZeroGrad \/ TrainModelStep \/ Backward \/ OptStep
    \/ TrainLog \/ TrainImages \/ ValFetch \/ ValModelStep \/ ValLog \/ ValR2
    \/ ValImages \/ Save

Spec == Init /\ [][Next]_vars

----------------------------------------------------------------------------
\* Properties of model_step (checked under SpecStep)

Returned1 == ret # NoRet

Positions == (1..Rows) \X (1..Cols)

\* how many positions of a mask are set
MaskedCount(m) == Cardinality({q \in Positions : m.data[q[1]][q[2]] = 1})

\* the elements of t at the set positions of m, row-major
MaskedValues(t, m) == SelectSeq2(Flatten(t.data), Flatten(m.data))

NonNegative(t) == \A q \in Positions : t.data[q[1]][q[2]] >= 0

\* the masker was reached and handed out a mask
MaskerReached == Returned1 /\ call.masking /\ call.batch.rate # NoneT

\* C1: with a mask from the masker, model_step calls the network and returns a loss
\* only if fewer than half of the mask's positions are set; with half or more set it
\* stops with an assertion error, the network not called and no loss returned.
C1_MaskFraction ==
    MaskerReached =>
        LET k == MaskedCount(call.masker_out)
            n == Rows * Cols
        IN  /\ (ret.outcome = "ok" \/ ret.net_called \/ ret.loss # NoLoss) => 2 * k < n
            /\ 2 * k >= n => /\ ret.outcome = "AssertionError"
                              /\ ~ret.net_called
                              /\ ret.loss = NoLoss

C1_Witness ==
    /\ MaskerReached
    /\ 2 * MaskedCount(call.masker_out) = Rows * Cols
    /\ ret.outcome = "AssertionError" /\ ret.line = 24

\* C2: whenever model_step returns, the criterion was given exactly the predictions
\* and the original X at the positions where the mask is set.
C2_LossOnlyOnMasked ==
    (Returned1 /\ ret.outcome = "ok") =>
        /\ ret.sel_pred = MaskedValues(ret.X_smoothed, ret.the_mask)
        /\ ret.sel_tgt = MaskedValues(call.batch.X, ret.the_mask)

\* the case of C3: the identity network and a mask with exactly one set position
OneMaskedIdentity ==
    /\ MaskerReached
    /\ ret.outcome = "ok"
    /\ call.net.kind = "identity"
    /\ MaskedCount(call.masker_out) = 1

MaskedX == MaskedValues(call.batch.X, call.masker_out)[1]

\* C3 as stated: with the identity network and one masked position the loss is 0.
C3_IdentityLossZero ==
    OneMaskedIdentity => ret.loss.n = 1 /\ ret.loss.sumsq = 0

\* C3: with the identity network and one masked position, the prediction there is 0
\* (the network sees the zeroed input) and the loss is the square of X there.
C3_IdentityLossSquare ==
    OneMaskedIdentity =>
        /\ ret.sel_pred = <<0>>
        /\ ret.loss.n = 1
        /\ ret.loss.sumsq = MaskedX * MaskedX

C3_Witness == OneMaskedIdentity /\ MaskedX # 0 /\ ret.loss.sumsq # 0

\* C4: without masking the mask is zero everywhere, no position of X is zeroed, and
\* the selections handed to the criterion are empty.
C4_NoMaskingEmpty ==
    (Returned1 /\ ~call.masking /\ ret.outcome = "ok") =>
        /\ \A q \in Positions : ret.the_mask.data[q[1]][q[2]] = 0
        /\ ret.X_masked.data = call.batch.X.data
        /\ ret.sel_pred = <<>>
        /\ ret.sel_tgt = <<>>

\* C5: for a non-negative X and a 0/1 mask, the sum of the masked input is at most
\* the sum of X, so the second assertion passes; the masked input is X at the unset
\* positions and 0 at the set ones.
C5_MaskedSum ==
    (Returned1 /\ ret.X_masked # NoneT /\ NonNegative(call.batch.X)) =>
        /\ Sum(ret.X_masked.data) <= Sum(call.batch.X.data)
        /\ ~(ret.outcome = "AssertionError" /\ ret.line = 28)
        /\ \A q \in Positions :
             ret.X_masked.data[q[1]][q[2]] =
                IF ret.the_mask.data[q[1]][q[2]] = 1 THEN 0 ELSE call.batch.X.data[q[1]][q[2]]

C5_Witness ==
    /\ Returned1 /\ ret.outcome = "ok" /\ NonNegative(call.batch.X)
    /\ \E q \in Positions : ret.the_mask.data[q[1]][q[2]] = 1 /\ call.batch.X.data[q[1]][q[2]] > 0
    /\ Sum(ret.X_masked.data) < Sum(call.batch.X.data)

\* C6: a batch whose rate is None goes through model_step, which returns None as rate.
C6_NoneRateAccepted ==
    (Returned1 /\ call.batch.rate = NoneT) => ret.outcome = "ok" /\ ret.rate = NoneT

----------------------------------------------------------------------------
\* Properties of the run (checked under Spec)

Last(q) == q[Len(q)]

InValidation == pc \in {"val_head", "val_step", "val_log", "val_r2", "val_images", "save"}

\* epochs gone through to their end
CompletedEpochs == IF pc \in {"epoch_head", "done"} THEN epoch + 1 ELSE epoch

\* C7: the parameters change only in the optimizer step of a training batch: a
\* training batch is zero_grad, model_step, backward, step, in this order and once
\* each; model_step and the whole validation loop leave the parameters as they were.
C7_ParamsOnlyByOptimizer ==
    /\ pc \in {"zero_grad", "model_step", "backward", "opt_step"} => net.w = hist.batch_start_w
    /\ pc = "train_log" => trace = <<"zero_grad", "model_step", "backward", "step">>
    /\ (pc = "train_head" /\ it > 0) =>
            trace = <<"zero_grad", "model_step", "backward", "step", "log_metrics">>
    /\ InValidation => net.w = hist.val_start_w
    /\ (pc = "val_head" /\ it > 0) =>
            /\ trace = <<"model_step", "log_metrics", "model_step", "add_scalar">>
            /\ net.w = hist.batch_start_w

C7_Witness ==
    /\ pc = "save"
    /\ loaders["val"] > 0
    /\ net.w # hist.epoch_start_w
    /\ net.w = hist.val_start_w

\* C8: model.pt is written once per epoch, after all its training and validation
\* batches; when the file exists it holds the parameters as they were at the end of
\* the last epoch gone through, and an epoch that fails part-way writes nothing.
C8_CheckpointAtEpochEnd ==
    /\ hist.saves = CompletedEpochs
    /\ checkpoint.exists <=> CompletedEpochs > 0
    /\ checkpoint.exists =>
         checkpoint.w = (IF pc \in {"epoch_head", "done"} THEN net.w ELSE hist.epoch_start_w)
    /\ pc = "save" => \A p \in Phases : hist.done[p] = loaders[p]

C8_Witness ==
    /\ pc = "train_log"
    /\ epoch = 1
    /\ checkpoint.exists
    /\ checkpoint.w # net.w

AtHead == pc \in {"epoch_head", "train_head", "train_images", "val_head", "val_images",
                  "save", "done"}

\* batches of a phase gone through so far, read off the position of the script
BatchesDone(p) ==
    IF p = "train"
    THEN (IF pc = "train_head" THEN epoch * loaders[p] + it
          ELSE IF pc \in {"epoch_head", "done"} THEN (epoch + 1) * loaders[p]
          ELSE (epoch + 1) * loaders[p])
    ELSE (IF pc = "val_head" THEN epoch * loaders[p] + it
          ELSE IF pc \in {"train_head", "train_images"} THEN epoch * loaders[p]
          ELSE (epoch + 1) * loaders[p])

\* groups of images of a phase logged so far, read off the position of the script
ImagesDone(p) ==
    IF p = "train"
    THEN (IF pc \in {"train_head", "train_images"} THEN epoch ELSE epoch + 1)
    ELSE (IF pc \in {"epoch_head", "save", "done"} THEN epoch + 1 ELSE epoch)

ImageOf(r) == [step |-> r.step, preds |-> LastRow(r.preds), targets |-> LastRow(r.targets),
               the_mask |-> LastRow(r.the_mask), rate |-> LastRow(r.rate)]

\* the images of a phase have just been logged
JustImaged(p) == IF p = "train" THEN pc = "val_head" /\ it = 0 ELSE pc = "save"

ScalarsPerBatch ==
    AtHead => \A p \in Phases : /\ logger.n_loss[p] = BatchesDone(p)
                                /\ logger.n_image[p] = ImagesDone(p)

\* C9 as stated: a '<prefix>/loss' scalar per batch, and per epoch and phase one group
\* of images, taken from the last batch of that phase of that epoch, whatever the
\* number of batches of the loaders.
C9_ImagesFromLastBatch ==
    /\ ScalarsPerBatch
    /\ hist.error # "NameError"
    /\ \A p \in Phases :
         JustImaged(p) =>
            /\ logger.image[p].step = epoch
            /\ hist.last_ret[p] # NoEntry
            /\ logger.image[p] = ImageOf(hist.last_ret[p])

\* C9: a '<prefix>/loss' scalar per batch, and per epoch and phase one group of images;
\* they are taken from the last batch of that phase of that epoch when its loader
\* yields a batch.  With no validation batch the val images are those of the last
\* training batch of the epoch; with no training batch the run stops with a NameError
\* at the first train image, nothing logged.
C9_ImagesFromLastStep ==
    /\ ScalarsPerBatch
    /\ \A p \in Phases :
         JustImaged(p) =>
            /\ logger.image[p].step = epoch
            /\ IF loaders[p] > 0
               THEN /\ logger.image[p] = ImageOf(hist.last_ret[p])
                    /\ hist.last_ret[p].batch_num = loaders[p] - 1
               ELSE /\ p = "val" /\ loaders["train"] > 0
                    /\ logger.image[p] = ImageOf(hist.last_ret["train"])
    /\ hist.error = "NameError" <=> (pc = "crashed" /\ loaders["train"] = 0)
    /\ hist.error = "NameError" =>
         /\ epoch = 0 /\ hist.line = 92
         /\ logger = NewLogger

C9_Witness ==
    /\ loaders["val"] = 0
    /\ pc = "save"
    /\ epoch = 1
    /\ logger.image["val"] = ImageOf(hist.last_ret["train"])

JustLogged(p) ==
    /\ trace # <<>> /\ Last(trace) = "log_metrics"
    /\ it > 0
    /\ pc = (IF p = "train" THEN "train_head" ELSE AfterValLog)

\* C10: every '<prefix>/loss' scalar is the loss model_step returned for the same
\* batch, logged at step epoch * (batches of the loader) + batch_num; the steps of a
\* phase are 0, 1, 2, ... over the whole run.
C10_LossOfSameBatch ==
    \A p \in Phases :
        /\ logger.loss[p] # NoEntry => logger.loss[p].step = logger.n_loss[p] - 1
        /\ logger.loss[p] = NoEntry => logger.n_loss[p] = 0
        /\ JustLogged(p) =>
             /\ hist.step_ret.phase = p
             /\ hist.step_ret.step = epoch
             /\ hist.step_ret.batch_num = batch_num
             /\ logger.loss[p].value = hist.step_ret.loss
             /\ logger.loss[p].step = epoch * loaders[p] + batch_num

C10_Witness ==
    /\ JustLogged("val")
    /\ epoch = 1 /\ batch_num = 1
    /\ logger.loss["val"].value # logger.loss["train"].value
    /\ logger.loss["val"].step = 3

====
